---- MODULE Spec2Model ----
(***************************************************************************)
(* Model of wardrobe_app.py: the persisted wardrobe document, one          *)
(* session's wardrobe and its management tab, the outfit recommendation,   *)
(* and two sessions racing on the document.                                *)
(*                                                                         *)
(* The source's string literals are transliterated:                        *)
(*   category "top" / "bottom" / "outer" / "accessory" stand for the four  *)
(*   entries of the category selectbox (lines 311 and 357), in that order; *)
(*   "shoes" is a category only an older document can hold.                *)
(* List positions are 0-based as in the source; wardrobe[i + 1] is the     *)
(* item the source calls wardrobe[i].                                      *)
(*                                                                         *)
(* Four specifications share the variables:                                *)
(*   Spec        one session: login, add, edit, save, cancel, delete;      *)
(*   SpecOutfit  the outfit button on any wardrobe and temperature;        *)
(*   SpecRace    two sessions, every file access a step of its own;        *)
(*   SpecStore   list.pop of the delete handler at any position.           *)
(* The logout button (lines 155-158) and the shopping tab (lines 235-297)  *)
(* write neither the wardrobe nor the file and are left out.               *)
(***************************************************************************)
EXTENDS Integers, Sequences, FiniteSets, TLC

VARIABLES
    file,         \* the backing file DB_FILE
    images,       \* number of files written under IMG_DIR
    user_name,    \* st.session_state.user_name, None when the key is absent
    wardrobe,     \* st.session_state.wardrobe
    edit_mode,    \* the positions i whose key edit_mode_{i} is True
    current_temp, \* st.session_state.current_temp
    outfit,       \* what the outfit button showed in this run
    sessions,     \* two sessions sharing the file (race specification)
    removal       \* the last list.pop applied to a store (store specification)

vars == <<file, images, user_name, wardrobe, edit_mode,
          current_temp, outfit, sessions, removal>>

-----------------------------------------------------------------------------
(* Bounds of the model *)

MaxItems == 3
MaxImages == 1

-----------------------------------------------------------------------------
(* Values *)

None == "<None>"
JSONNull == "<null>"

Users == {"amy", "bob"}

Categories == {"top", "bottom", "outer", "accessory"}

ClothingItem(name, category, color, material, image_path) ==
    [name |-> name, category |-> category, color |-> color,
     material |-> material, image_path |-> image_path]

to_dict(item) ==
    [name |-> item.name, category |-> item.category, color |-> item.color,
     material |-> item.material, image_path |-> item.image_path]

\* dict.get(key) with the default None
dict_get(data, key) == IF key \in DOMAIN data THEN data[key] ELSE None

from_dict_drops_image(data) ==
    ClothingItem(data["name"], data["category"], data["color"],
                 data["material"], None)

from_dict(data) ==
    ClothingItem(data["name"], data["category"], data["color"],
                 data["material"], dict_get(data, "image_path"))

-----------------------------------------------------------------------------
(* The backing file.  Its content is JSON: a Python None is written as     *)
(* null and read back as None.                                             *)

EmptyDict == [u \in {} |-> <<>>]

json_dump_value(v) == IF v = None THEN JSONNull ELSE v
json_load_value(j) == IF j = JSONNull THEN None ELSE j

json_dump(data) ==
    [u \in DOMAIN data |->
        [i \in 1..Len(data[u]) |->
            [k \in DOMAIN data[u][i] |-> json_dump_value(data[u][i][k])]]]

json_load(text) ==
    [u \in DOMAIN text |->
        [i \in 1..Len(text[u]) |->
            [k \in DOMAIN text[u][i] |-> json_load_value(text[u][i][k])]]]

MissingFile == [kind |-> "missing", text |-> EmptyDict]
CorruptFile == [kind |-> "corrupt", text |-> EmptyDict]

load_all_data(f) ==
    IF f.kind = "json" THEN json_load(f.text) ELSE EmptyDict

save_all_data(data) ==
    [kind |-> "json", text |-> json_dump(data)]

user_items(w) == [i \in 1..Len(w) |-> to_dict(w[i])]

\* db[key] = value on a dict
dict_put(db, key, value) ==
    [k \in DOMAIN db \cup {key} |-> IF k = key THEN value ELSE db[k]]

write_back_own_key_only(db, name, w) ==
    save_all_data(dict_put(EmptyDict, name, user_items(w)))

\* Lines 74-76 on the document db that line 73 loaded
write_back(db, name, w) ==
    save_all_data(dict_put(db, name, user_items(w)))

\* The whole of save_current_user_data, run without interleaving
save_current_user_data_without_load(f, name, w) ==
    write_back(EmptyDict, name, w)

save_current_user_data(f, name, w) ==
    write_back(load_all_data(f), name, w)

\* The entry of user u in a loaded document: {db[u]}, or {} when the key
\* is absent
Entry(db, u) == IF u \in DOMAIN db THEN {db[u]} ELSE {}

-----------------------------------------------------------------------------
(* Initial documents *)

DefaultItems ==
    << ClothingItem("WhiteTee", "top", "white", "cotton", None),
       ClothingItem("Jeans", "bottom", "blue", "denim", None),
       ClothingItem("Windbreaker", "outer", "black", "nylon", None) >>

\* An entry written before image_path existed, and one with an old category
LegacyTop == [name |-> "OldShirt", category |-> "top", color |-> "grey",
              material |-> "wool"]
OldShoes == [name |-> "Boots", category |-> "shoes", color |-> "brown",
             material |-> "leather", image_path |-> "images/old.png"]

InitialFiles ==
    { MissingFile,
      CorruptFile,
      [kind |-> "json", text |-> [u \in {"bob"} |-> <<LegacyTop, OldShoes>>]] }

-----------------------------------------------------------------------------
(* Outfit recommendation (tab 1)                                           *)

Range(seq) == {seq[i] : i \in 1 .. Len(seq)}

IsTop(x) == x.category = "top"
IsBottom(x) == x.category = "bottom"
IsOuter(x) == x.category = "outer"

tops_by_cotton_only(w) ==
    SelectSeq(w, LAMBDA x : IsTop(x) /\ x.material = "cotton")

tops(w) == SelectSeq(w, IsTop)
bottoms(w) == SelectSeq(w, IsBottom)
outers(w) == SelectSeq(w, IsOuter)

no_combination_needs_both_empty(w) == tops(w) = <<>> /\ bottoms(w) = <<>>

\* "if not tops or not bottoms"
no_combination(w) == tops(w) = <<>> \/ bottoms(w) = <<>>

select_outer_up_to_20(w, temp) ==
    IF temp <= 20 /\ outers(w) # <<>>
    THEN {<<[title |-> "outer", item |-> o]>> : o \in Range(outers(w))}
    ELSE {<<>>}

\* The cards random.choice(outers) can add: one per possible choice when
\* the temperature is below 20 and there is outerwear, else none
select_outer(w, temp) ==
    IF temp < 20 /\ outers(w) # <<>>
    THEN {<<[title |-> "outer", item |-> o]>> : o \in Range(outers(w))}
    ELSE {<<>>}

NoOutfit == [kind |-> "none", cards |-> <<>>]

NoRemoval == [outcome |-> "none", index |-> 0, before |-> <<>>,
              file_before |-> MissingFile]

-----------------------------------------------------------------------------
(* Image files.  uuid4 gives every stored file a name not used before: the *)
(* k-th file written gets the k-th name.                                   *)

UploadPaths == <<"images/u1.jpg", "images/u2.jpg", "images/u3.jpg">>

CanUpload == images < MaxImages /\ images < Len(UploadPaths)

\* The path save_uploaded_image returns; None without an uploaded file
save_uploaded_image(uploaded) ==
    IF uploaded THEN UploadPaths[images + 1] ELSE None

-----------------------------------------------------------------------------
(* One session (specification Spec).  current_temp and outfit belong to    *)
(* tab 1 and are exercised by SpecOutfit.                                  *)

Positions == 0 .. (Len(wardrobe) - 1)

\* list.pop(i) of a valid position
pop(w, i) == [k \in 1 .. (Len(w) - 1) |-> IF k <= i THEN w[k] ELSE w[k + 1]]

\* Row j of the management tab raises ValueError when it is in edit mode
\* and its category is not in the selectbox (list.index, line 357)
RowRaises(j) ==
    j \in edit_mode /\ wardrobe[j + 1].category \notin Categories

\* Row i is reached only if no earlier row raised
Rendered(i) == i \in Positions /\ \A j \in 0 .. (i - 1) : ~RowRaises(j)

InEditForm(i) == Rendered(i) /\ i \in edit_mode /\ ~RowRaises(i)
InViewMode(i) == Rendered(i) /\ i \notin edit_mode

OtherUnchanged == UNCHANGED <<current_temp, outfit, sessions, removal>>

\* "if name_input:" fails, nothing happens
LoginEmptyName ==
    /\ user_name = None
    /\ UNCHANGED vars

\* [ClothingItem.from_dict(item) for item in db[name_input]]
load_user_items(db, name_input) ==
    [i \in 1 .. Len(db[name_input]) |-> from_dict(db[name_input][i])]

LoginExisting(name_input) ==
    /\ user_name = None
    /\ name_input \in DOMAIN load_all_data(file)
    /\ user_name' = name_input
    /\ wardrobe' = load_user_items(load_all_data(file), name_input)
    /\ UNCHANGED <<file, images, edit_mode>>
    /\ OtherUnchanged

LoginNew(name_input) ==
    /\ user_name = None
    /\ name_input \notin DOMAIN load_all_data(file)
    /\ user_name' = name_input
    /\ wardrobe' = DefaultItems
    /\ file' = save_current_user_data(file, name_input, DefaultItems)
    /\ UNCHANGED <<images, edit_mode>>
    /\ OtherUnchanged

AddCategories == {"accessory"}

\* "if name:" fails: st.warning, nothing else
AddRejected ==
    /\ user_name # None
    /\ UNCHANGED vars

AddItem(name, category, uploaded) ==
    /\ user_name # None
    /\ name # ""
    /\ Len(wardrobe) < MaxItems
    /\ uploaded => CanUpload
    /\ LET saved_image_path == save_uploaded_image(uploaded)
           new_item == ClothingItem(name, category, "black", "fleece", saved_image_path)
       IN  /\ wardrobe' = Append(wardrobe, new_item)
           /\ file' = save_current_user_data(file, user_name, wardrobe')
    /\ images' = IF uploaded THEN images + 1 ELSE images
    /\ UNCHANGED <<user_name, edit_mode>>
    /\ OtherUnchanged

EditButton(i) ==
    /\ user_name # None
    /\ InViewMode(i)
    /\ edit_mode' = edit_mode \cup {i}
    /\ UNCHANGED <<file, images, user_name, wardrobe>>
    /\ OtherUnchanged

EditNames == {""}

SaveEdit(i, new_name, new_cat, uploaded) ==
    /\ user_name # None
    /\ InEditForm(i)
    /\ uploaded => CanUpload
    /\ LET item == wardrobe[i + 1]
           edited == ClothingItem(new_name, new_cat, item.color, item.material,
                        IF uploaded THEN save_uploaded_image(uploaded)
                                    ELSE item.image_path)
       IN  /\ wardrobe' = [wardrobe EXCEPT ![i + 1] = edited]
           /\ file' = save_current_user_data(file, user_name, wardrobe')
    /\ images' = IF uploaded THEN images + 1 ELSE images
    /\ edit_mode' = edit_mode \ {i}
    /\ UNCHANGED user_name
    /\ OtherUnchanged

CancelEdit(i) ==
    /\ user_name # None
    /\ InEditForm(i)
    /\ edit_mode' = edit_mode \ {i}
    /\ UNCHANGED <<file, images, user_name, wardrobe>>
    /\ OtherUnchanged

Delete_without_save(i) ==
    /\ user_name # None
    /\ InViewMode(i)
    /\ wardrobe' = pop(wardrobe, i)
    /\ UNCHANGED <<file, images, user_name, edit_mode>>
    /\ OtherUnchanged

Delete(i) ==
    /\ user_name # None
    /\ InViewMode(i)
    /\ wardrobe' = pop(wardrobe, i)
    /\ file' = save_current_user_data(file, user_name, wardrobe')
    /\ UNCHANGED <<images, user_name, edit_mode>>
    /\ OtherUnchanged

Init ==
    /\ file \in InitialFiles
    /\ images = 0
    /\ user_name = None
    /\ wardrobe = <<>>
    /\ edit_mode = {}
    /\ current_temp = None
    /\ outfit = NoOutfit
    /\ sessions = None
    /\ removal = NoRemoval

Next ==
    \/ LoginEmptyName
    \/ \E n \in Users : LoginExisting(n)
    \/ \E n \in Users : LoginNew(n)
    \/ AddRejected
    \/ \E c \in AddCategories, up \in BOOLEAN : AddItem("Hoodie", c, up)
    \/ \E i \in Positions : EditButton(i)
    \/ \E i \in Positions :
          \E n \in {wardrobe[i + 1].name} \cup EditNames,
             c \in {wardrobe[i + 1].category},
             up \in BOOLEAN : SaveEdit(i, n, c, up)
    \/ \E i \in Positions : CancelEdit(i)
    \/ \E i \in Positions : Delete(i)

Spec == Init /\ [][Next]_vars

-----------------------------------------------------------------------------
(* The outfit button (specification SpecOutfit): a logged-in session with  *)
(* any wardrobe of up to MaxItems items and any temperature.               *)

Materials == {"cotton", "wool"}
OutfitCategories == {"top", "bottom", "outer", "shoes"}
FallbackTemp == 25
Temps == {14, 19, 20, FallbackTemp, 28, 30}

OutfitItems ==
    {ClothingItem("Item", c, "grey", m, None) :
        c \in OutfitCategories, m \in Materials}

Wardrobes ==
    UNION {[1 .. n -> OutfitItems] : n \in 0 .. MaxItems}

InitOutfit ==
    /\ user_name = "amy"
    /\ wardrobe \in Wardrobes
    /\ file = save_current_user_data(MissingFile, user_name, wardrobe)
    /\ current_temp \in Temps
    /\ images = 0
    /\ edit_mode = {}
    /\ outfit = NoOutfit
    /\ sessions = None
    /\ removal = NoRemoval

OutfitUnchanged ==
    UNCHANGED <<file, images, user_name, wardrobe, edit_mode, current_temp,
                sessions, removal>>

OutfitWarning ==
    /\ user_name # None
    /\ no_combination(wardrobe)
    /\ outfit' = [kind |-> "warning", cards |-> <<>>]
    /\ OutfitUnchanged

\* random.choice raises IndexError on an empty list
OutfitChosen ==
    /\ user_name # None
    /\ ~no_combination(wardrobe)
    /\ IF tops(wardrobe) = <<>> \/ bottoms(wardrobe) = <<>>
       THEN outfit' = [kind |-> "IndexError", cards |-> <<>>]
       ELSE \E top \in Range(tops(wardrobe)),
               bottom \in Range(bottoms(wardrobe)),
               selected_outer \in select_outer(wardrobe, current_temp) :
                outfit' = [kind |-> "outfit",
                           cards |-> <<[title |-> "top", item |-> top],
                                       [title |-> "bottom", item |-> bottom]>>
                                     \o selected_outer]
    /\ OutfitUnchanged

NextOutfit == OutfitWarning \/ OutfitChosen

SpecOutfit == InitOutfit /\ [][NextOutfit]_vars

-----------------------------------------------------------------------------
(* Two sessions sharing the file (specification SpecRace).  Each file      *)
(* access is a step of its own: the load of line 137, the load of line 73, *)
(* the open(DB_FILE, "w") of line 68, which truncates the file, and the    *)
(* json.dump of line 69.                                                   *)

SessionIds == {1, 2}

LoggedOut == [user_name |-> None, wardrobe |-> <<>>, pc |-> "idle",
              db |-> EmptyDict]

\* What a reader finds between the truncation and the dump: json.load
\* raises and load_all_data returns {}
TruncatedFile == CorruptFile

RaceUnchanged ==
    UNCHANGED <<images, user_name, wardrobe, edit_mode, current_temp,
                outfit, removal>>

RaceLogin(s, name_input) ==
    /\ sessions[s].user_name = None
    /\ LET db == load_all_data(file) IN
       IF name_input \in DOMAIN db
       THEN sessions' = [sessions EXCEPT ![s] =
                [user_name |-> name_input,
                 wardrobe |-> load_user_items(db, name_input),
                 pc |-> "idle", db |-> EmptyDict]]
       ELSE sessions' = [sessions EXCEPT ![s] =
                [user_name |-> name_input, wardrobe |-> DefaultItems,
                 pc |-> "save_load", db |-> EmptyDict]]
    /\ UNCHANGED file
    /\ RaceUnchanged

RaceDelete(s, i) ==
    /\ sessions[s].user_name # None
    /\ sessions[s].pc = "idle"
    /\ i \in 0 .. (Len(sessions[s].wardrobe) - 1)
    /\ sessions' = [sessions EXCEPT ![s].wardrobe = pop(@, i),
                                    ![s].pc = "save_load"]
    /\ UNCHANGED file
    /\ RaceUnchanged

\* db = load_all_data()
RaceSaveLoad(s) ==
    /\ sessions[s].pc = "save_load"
    /\ sessions' = [sessions EXCEPT ![s].db = load_all_data(file),
                                    ![s].pc = "save_open"]
    /\ UNCHANGED file
    /\ RaceUnchanged

\* open(DB_FILE, "w")
RaceSaveOpen(s) ==
    /\ sessions[s].pc = "save_open"
    /\ file' = TruncatedFile
    /\ sessions' = [sessions EXCEPT ![s].pc = "save_dump"]
    /\ RaceUnchanged

\* json.dump(db, f) of the copy loaded earlier, own key replaced.  Each
\* writer writes from offset 0 of its own handle: when another session's
\* dump has landed since this one's open, the two texts overlay, and the
\* result is this writer's text or, when it is the shorter one, no JSON.
RaceSaveDump(s) ==
    /\ sessions[s].pc = "save_dump"
    /\ LET written == write_back(sessions[s].db, sessions[s].user_name,
                                 sessions[s].wardrobe)
       IN  IF file = TruncatedFile
           THEN file' = written
           ELSE file' \in {written, CorruptFile}
    /\ sessions' = [sessions EXCEPT ![s].pc = "idle", ![s].db = EmptyDict]
    /\ RaceUnchanged

InitRace ==
    /\ file \in InitialFiles
    /\ images = 0
    /\ user_name = None
    /\ wardrobe = <<>>
    /\ edit_mode = {}
    /\ current_temp = None
    /\ outfit = NoOutfit
    /\ sessions = [s \in SessionIds |-> LoggedOut]
    /\ removal = NoRemoval

NextRace ==
    \/ \E s \in SessionIds, n \in Users : RaceLogin(s, n)
    \/ \E s \in SessionIds : \E i \in 0 .. (Len(DefaultItems) - 1) : RaceDelete(s, i)
    \/ \E s \in SessionIds : RaceSaveLoad(s)
    \/ \E s \in SessionIds : RaceSaveOpen(s)
    \/ \E s \in SessionIds : RaceSaveDump(s)

SpecRace == InitRace /\ [][NextRace]_vars

-----------------------------------------------------------------------------
(* The item store's remove as a function of the store and the position     *)
(* (specification SpecStore): lines 403-404 applied at any position.       *)

InitStore ==
    /\ user_name = "amy"
    /\ wardrobe \in Wardrobes
    /\ file = save_current_user_data(MissingFile, user_name, wardrobe)
    /\ current_temp = None
    /\ images = 0
    /\ edit_mode = {}
    /\ outfit = NoOutfit
    /\ sessions = None
    /\ removal = NoRemoval

\* list.pop(i) raises IndexError when i is not a position of the list;
\* nothing around line 403 catches it
RemoveAt(i) ==
    /\ removal.outcome = "none"
    /\ IF i < Len(wardrobe)
       THEN /\ wardrobe' = pop(wardrobe, i)
            /\ file' = save_current_user_data(file, user_name, wardrobe')
            /\ removal' = [outcome |-> "removed", index |-> i,
                           before |-> wardrobe, file_before |-> file]
       ELSE /\ removal' = [outcome |-> "uncaught IndexError", index |-> i,
                           before |-> wardrobe, file_before |-> file]
            /\ UNCHANGED <<wardrobe, file>>
    /\ UNCHANGED <<images, user_name, edit_mode, current_temp, outfit,
                   sessions>>

NextStore == \E i \in 0 .. MaxItems : RemoveAt(i)

SpecStore == InitStore /\ [][NextStore]_vars

-----------------------------------------------------------------------------
(* Properties of SpecRace and SpecStore                                    *)

\* C1: save_current_user_data is load, replace own key, write, with no
\* lock: a completed write holds the writer's wardrobe and, for every other
\* user, the entry of the writer's earlier copy of the document, whatever
\* the document held by then, so that with two sessions of different users
\* a state is reached where the document has lost the wardrobe one of them
\* saved (C1_LostUpdate).
C1_WriteOverwritesWithOwnCopy ==
    [][\A s \in SessionIds :
         (/\ sessions[s].pc = "save_dump"
          /\ sessions'[s].pc = "idle"
          /\ file'.kind = "json") =>
             /\ Entry(load_all_data(file'), sessions[s].user_name)
                    = {user_items(sessions[s].wardrobe)}
             /\ \A u \in Users :
                    u # sessions[s].user_name =>
                        Entry(load_all_data(file'), u) = Entry(sessions[s].db, u)]_vars

\* Both sessions, of different users, are through their saves; one of
\* them seeded its default wardrobe and saved it, and the document, a
\* well-formed one, no longer holds that user's wardrobe
C1_LostUpdate ==
    /\ \A s \in SessionIds :
          sessions[s].user_name # None /\ sessions[s].pc = "idle"
    /\ sessions[1].user_name # sessions[2].user_name
    /\ file.kind = "json"
    /\ \E s \in SessionIds :
          /\ sessions[s].wardrobe = DefaultItems
          /\ Entry(load_all_data(file), sessions[s].user_name) = {}

-----------------------------------------------------------------------------
(* Properties of SpecOutfit                                                *)

Cards(title) == SelectSeq(outfit.cards, LAMBDA c : c.title = title)

HasTopAndBottom ==
    /\ \E i \in 1 .. Len(wardrobe) : wardrobe[i].category = "top"
    /\ \E i \in 1 .. Len(wardrobe) : wardrobe[i].category = "bottom"

OuterwearItems ==
    {wardrobe[i] : i \in {k \in 1 .. Len(wardrobe) : wardrobe[k].category = "outer"}}

\* C4: for a wardrobe with a top and a bottom, the outfit has an outer
\* layer exactly when the temperature is below 20 and the wardrobe has
\* outerwear; it is then exactly one of the wardrobe's outerwear items;
\* from 20 up (so from 28 up) there is none.
C4_OuterLayerRule ==
    (HasTopAndBottom /\ outfit.kind # "none") =>
        /\ Len(Cards("outer")) \in {0, 1}
        /\ Len(Cards("outer")) = 1 <=>
               (current_temp < 20 /\ OuterwearItems # {})
        /\ \A i \in 1 .. Len(Cards("outer")) :
               Cards("outer")[i].item \in OuterwearItems
        /\ current_temp >= 20 => Cards("outer") = <<>>

\* An outfit with the wardrobe's outerwear item as outer layer at 19 degrees
C4_Witness ==
    /\ outfit.kind = "outfit"
    /\ current_temp = 19
    /\ OuterwearItems # {}
    /\ Len(Cards("outer")) = 1
    /\ Cards("outer")[1].item \in OuterwearItems

\* C5: without a top or without a bottom (the empty wardrobe and one of
\* only other categories included) the button gives the warning and no
\* outfit at every temperature, and raises nothing; with a top and a
\* bottom the outfit has exactly one top and one bottom, each an item of
\* the wardrobe with that category.
C5_NoCombinationOrPair ==
    outfit.kind # "none" =>
        IF HasTopAndBottom
        THEN /\ outfit.kind = "outfit"
             /\ Len(Cards("top")) = 1
             /\ Len(Cards("bottom")) = 1
             /\ Cards("top")[1].item \in Range(wardrobe)
             /\ Cards("top")[1].item.category = "top"
             /\ Cards("bottom")[1].item \in Range(wardrobe)
             /\ Cards("bottom")[1].item.category = "bottom"
        ELSE /\ outfit.kind = "warning"
             /\ outfit.cards = <<>>

\* The warning for a wardrobe of three items, none a top
C5_Witness ==
    /\ outfit.kind = "warning"
    /\ Len(wardrobe) = 3
    /\ \E i \in 1 .. Len(wardrobe) : wardrobe[i].category = "bottom"
    /\ \E i \in 1 .. Len(wardrobe) : wardrobe[i].category = "shoes"

-----------------------------------------------------------------------------
(* Properties of Spec                                                      *)

LoggedIn == user_name # None

\* C2: saving a wardrobe with save_current_user_data and then loading the
\* user's entry as login does (load_all_data, from_dict on each element)
\* gives back the same items in the same order, with equal name, category,
\* color, material and image path, an absent image path included.
C2_RoundTrip ==
    LoggedIn =>
        LET saved == save_current_user_data(file, user_name, wardrobe) IN
        /\ user_name \in DOMAIN load_all_data(saved)
        /\ load_user_items(load_all_data(saved), user_name) = wardrobe

\* A saved wardrobe holding an item without and an item with an image path
C2_Witness ==
    /\ LoggedIn
    /\ \E i, j \in 1 .. Len(wardrobe) :
          /\ wardrobe[i].image_path = None
          /\ wardrobe[j].image_path # None
    /\ file = save_current_user_data(file, user_name, wardrobe)
    /\ load_user_items(load_all_data(file), user_name) = wardrobe

\* A step that changes the wardrobe: seeding at a first login, add,
\* save-edit or delete (a login of a known user only loads)
Mutation ==
    /\ user_name' # None
    /\ wardrobe' # wardrobe
    /\ user_name = None => user_name' \notin DOMAIN load_all_data(file)

\* C3: in one session with no other writer, after every action that
\* changes the wardrobe the document's entry of the logged-in user is the
\* serialization of the in-memory wardrobe, item for item, in order.
C3_MutationsPersisted ==
    [][Mutation =>
         Entry(load_all_data(file'), user_name') = {user_items(wardrobe')}]_vars

\* After a first login, deletes, an add and an edit, the entry is current
C3_Witness ==
    /\ LoggedIn
    /\ Len(wardrobe) = 2
    /\ \E i, j \in 1 .. Len(wardrobe) :
          wardrobe[i].name = "Hoodie" /\ wardrobe[j].name = ""
    /\ Entry(load_all_data(file), user_name) = {user_items(wardrobe)}

\* C8: every submission with an empty name is rejected, so after any
\* sequence of login, add, edit and delete every item of the wardrobe has
\* a non-empty name.
C8_NamesNonEmpty ==
    \A i \in 1 .. Len(wardrobe) : wardrobe[i].name # ""

\* C9: edit mode follows the item: a delete at a lower position leaves
\* every later item in the mode it was in, and no edit flag is set for a
\* position that holds no item.
C9_EditModeFollowsItem ==
    [][/\ \A i \in Positions :
            (i \notin edit_mode /\ wardrobe' = pop(wardrobe, i)) =>
                \A j \in Positions :
                    j > i => ((j - 1 \in edit_mode') <=> (j \in edit_mode))
       /\ \A k \in edit_mode' : k < Len(wardrobe')]_vars

\* C10: a save changes only the entry of the logged-in user: the entry of
\* every other user name is the same before and after, present or absent,
\* whether the file was a document, missing or corrupt.
C10_SaveFrame ==
    [][\A u \in Users :
         u # user_name' =>
             Entry(load_all_data(file'), u) = Entry(load_all_data(file), u)]_vars

\* The session of amy has rewritten a document that holds bob's entry
C10_Witness ==
    /\ user_name = "amy"
    /\ Len(wardrobe) = 2
    /\ Entry(load_all_data(file), "amy") = {user_items(wardrobe)}
    /\ Entry(load_all_data(file), "bob") = {<<LegacyTop, OldShoes>>}

====
